---- MODULE Spec2Model ----
(***************************************************************************)
(* A model of gsplat/_torch_impl_out.py: the pure-PyTorch path that        *)
(* projects 3D Gaussians, bins them into screen tiles, encodes per-tile    *)
(* ranges and composites them, with negative-opacity Gaussians.            *)
(*                                                                         *)
(* Number representation.                                                  *)
(*   - Lengths (means2d, pixel centres, depths, near and far plane) are    *)
(*     kept in halves: the integer h stands for the float h/2.             *)
(*     DepthId gives the IEEE-754 single-precision pattern of h/2.         *)
(*   - A 64-bit key k is the triple <<k >> 32, bit 31 of k, bits 0..30>>;  *)
(*     two keys compare as the triples do lexicographically.               *)
(*   - Covariances are kept in tenths, determinants of 3x3 covariances     *)
(*     in thousandths; a 3x3 matrix is a triple of rows.                   *)
(*   - Opacities, alphas, weights, colors and transmittances are kept in   *)
(*     thousandths, rounded down after every product.                      *)
(*   - Tensors are functions over 0..n-1; a [C, N] tensor is kept          *)
(*     flattened, entry cam * N + gauss.                                   *)
(***************************************************************************)
EXTENDS Integers, Sequences, FiniteSets, TLC

VARIABLES
    pc,        \* the call about to be made, or how the last one ended
    call,      \* the arguments of _fully_fused_projection
    proj,      \* what _fully_fused_projection returned
    inp,       \* the arguments of _isect_tiles
    isect,     \* what _isect_tiles returned
    enc,       \* what _isect_offset_encode returned
    sortArg,   \* the argument of sort_ids_and_get_offsets
    sortRes,   \* what sort_ids_and_get_offsets returned
    scene,     \* the arguments of _rasterize_to_pixels, but the stream
    render,    \* the batch loop of _rasterize_to_pixels and what it returns
    keyArg,    \* two (camera, tile, depth) and the grid their keys are built for
    keyRes,    \* the keys built for them
    accArg,    \* the triples of a direct call of accumulate
    acc        \* the last call of accumulate

vars == <<pc, call, proj, inp, isect, enc, sortArg, sortRes, keyArg, keyRes,
          scene, render, accArg, acc>>

projVars == <<call, proj>>

binVars == <<inp, isect, enc>>

sortVars == <<sortArg, sortRes>>

keyVars == <<keyArg, keyRes>>

rasterVars == <<scene, render, accArg, acc>>

\* ------------------------------------------------------------------ bounds
MaxC == 2
MaxGauss == 4
MaxProjGauss == 2
MaxIds == 4
MaxId == 2
MaxRasterGauss == 2
MaxBatchPerIter == 2
MaxAccGauss == 2
MaxTriples == 3
MaxKeyDepth == 9
MaxCorrTriples == 4

\* ------------------------------------------------------------- arithmetic
Size(t) == Cardinality(DOMAIN t)

Min2(a, b) == IF a < b THEN a ELSE b

Max2(a, b) == IF a > b THEN a ELSE b

Clamp(v, lo, hi) == Min2(Max2(v, lo), hi)

FloorDiv(a, b) == a \div b

CeilDiv(a, b) == -((-a) \div b)

RECURSIVE BitLength(_)
BitLength(n) == IF n = 0 THEN 0 ELSE 1 + BitLength(n \div 2)

RECURSIVE SumTo(_, _)
SumTo(t, n) == IF n = 0 THEN 0 ELSE t[n - 1] + SumTo(t, n - 1)

\* torch.cumsum: entry i is t[0] + ... + t[i]
CumSum(t) == [i \in DOMAIN t |-> SumTo(t, i + 1)]

\* ------------------------------------------------------------ depth keys
RECURSIVE FloorLog2(_)
FloorLog2(n) == IF n <= 1 THEN 0 ELSE 1 + FloorLog2(n \div 2)

\* struct.pack("f", q/2) read as an unsigned pattern without its sign bit:
\* biased exponent in bits 23..30, fraction in bits 0..22.
FloatMagnitudeBits(q) ==
    IF q = 0 THEN 0
    ELSE LET a == IF q < 0 THEN -q ELSE q
             e == FloorLog2(a)
         IN  (e - 1 + 127) * (2 ^ 23) + (a - 2 ^ e) * (2 ^ (23 - e))

\* struct.unpack("i", struct.pack("f", depth)): the pattern as a signed
\* 32-bit integer; a set sign bit makes it negative (pattern - 2^32).
DepthId(q) ==
    IF q < 0 THEN FloatMagnitudeBits(q) - 2147483647 - 1
    ELSE FloatMagnitudeBits(q)

IsectKeyTileLow(cam_id, tile_id, tile_n_bits, depth_id) ==
    <<tile_id * (2 ^ tile_n_bits) + cam_id, 0, depth_id>>

\* (cam_id << 32 << tile_n_bits) | (tile_id << 32) | depth_id on Python
\* integers.  A negative depth_id has every bit from 31 up set, so the OR
\* leaves depth_id itself: the upper word is -1.
IsectKey(cam_id, tile_id, tile_n_bits, depth_id) ==
    IF depth_id >= 0
    THEN <<cam_id * (2 ^ tile_n_bits) + tile_id, 0, depth_id>>
    ELSE <<-1, 1, depth_id + 2147483647 + 1>>

\* k1 < k2 on int64
KeyLess(k1, k2) ==
    \/ k1[1] < k2[1]
    \/ k1[1] = k2[1] /\ k1[2] < k2[2]
    \/ k1[1] = k2[1] /\ k1[2] = k2[2] /\ k1[3] < k2[3]

\* torch.sort of int64 keys.  The sort is not stable: equal keys may come in
\* either order; tiesReversed picks between the two extreme outcomes.
RECURSIVE SortPermFrom(_, _, _)
SortPermFrom(keys, left, tiesReversed) ==
    IF left = {} THEN <<>>
    ELSE LET Before(i, j) ==
                 \/ KeyLess(keys[i], keys[j])
                 \/ keys[i] = keys[j] /\ (IF tiesReversed THEN i > j ELSE i < j)
             first == CHOOSE i \in left : \A j \in left \ {i} : Before(i, j)
         IN  <<first>> \o SortPermFrom(keys, left \ {first}, tiesReversed)

SortIndicesUnsorted(keys, tiesReversed) == [i \in DOMAIN keys |-> i]

\* sort_indices of torch.sort(keys), 0-based
SortIndices(keys, tiesReversed) ==
    LET p == SortPermFrom(keys, DOMAIN keys, tiesReversed)
    IN  [i \in DOMAIN keys |-> p[i + 1]]

\* ---------------------------------------------------------- _isect_tiles
\* in: [C, N, tile_size, tile_width, tile_height, means2d, radii, depths]
TileMins(in, i) ==
    LET m == in.means2d[i]
        r == in.radii[i]
    IN  <<Clamp(FloorDiv(m[1] - 2 * r, 2 * in.tile_size), 0, in.tile_width),
          Clamp(FloorDiv(m[2] - 2 * r, 2 * in.tile_size), 0, in.tile_height)>>

TileMaxsFloor(in, i) ==
    LET m == in.means2d[i]
        r == in.radii[i]
    IN  <<Clamp(FloorDiv(m[1] + 2 * r, 2 * in.tile_size), 0, in.tile_width),
          Clamp(FloorDiv(m[2] + 2 * r, 2 * in.tile_size), 0, in.tile_height)>>

TileMaxs(in, i) ==
    LET m == in.means2d[i]
        r == in.radii[i]
    IN  <<Clamp(CeilDiv(m[1] + 2 * r, 2 * in.tile_size), 0, in.tile_width),
          Clamp(CeilDiv(m[2] + 2 * r, 2 * in.tile_size), 0, in.tile_height)>>

TilesPerGauss(in) ==
    [i \in 0..(in.C * in.N - 1) |->
        (TileMaxs(in, i)[1] - TileMins(in, i)[1])
      * (TileMaxs(in, i)[2] - TileMins(in, i)[2])
      * (IF in.radii[i] > 0 THEN 1 ELSE 0)]

TileNBits(tile_width, tile_height) == BitLength(tile_width * tile_height)

\* torch.empty: a slot no kernel has written holds no defined value
Uninit == "uninit"

\* kernel(cam_id, gauss_id) writing into buf = [ids, flat, tag, writes].
\* tag and writes are history fields, not program state: the
\* <<cam_id, tile_id, index, curr_idx>> of the iteration that wrote the
\* slot, and how many iterations have written it.
Kernel(in, cam_id, gauss_id, buf) ==
    LET index == cam_id * in.N + gauss_id
        cum == CumSum(TilesPerGauss(in))
        start == IF index > 0 THEN cum[index - 1] ELSE 0
        depth_id == DepthId(in.depths[index])
        tmin == TileMins(in, index)
        tmax == TileMaxs(in, index)
        w == tmax[1] - tmin[1]
        cnt == w * (tmax[2] - tmin[2])
        \* the k-th iteration of "for y ... for x ..."
        TileAt(k) == (tmin[2] + (k \div w)) * in.tile_width + (tmin[1] + (k % w))
        slots == {s \in DOMAIN buf.ids : s >= start /\ s < start + cnt}
    IN  IF in.radii[index] <= 0 THEN buf
        ELSE [ids  |-> [s \in DOMAIN buf.ids |->
                          IF s \in slots
                          THEN IsectKey(cam_id, TileAt(s - start),
                                        TileNBits(in.tile_width, in.tile_height),
                                        depth_id)
                          ELSE buf.ids[s]],
              flat |-> [s \in DOMAIN buf.flat |->
                          IF s \in slots THEN index ELSE buf.flat[s]],
              tag  |-> [s \in DOMAIN buf.tag |->
                          IF s \in slots
                          THEN <<cam_id, TileAt(s - start), index, s>>
                          ELSE buf.tag[s]],
              writes |-> [s \in DOMAIN buf.writes |->
                          IF s \in slots THEN buf.writes[s] + 1 ELSE buf.writes[s]]]

\* for cam_id in range(C): for gauss_id in range(N): kernel(cam_id, gauss_id)
RECURSIVE KernelLoop(_, _, _)
KernelLoop(in, index, buf) ==
    IF index = in.C * in.N THEN buf
    ELSE KernelLoop(in, index + 1,
                    Kernel(in, index \div in.N, index % in.N, buf))

FlattenIdsUnsorted(flatten_ids, sort_indices) == flatten_ids

\* flatten_ids = flatten_ids[sort_indices]
FlattenIdsSorted(flatten_ids, sort_indices) ==
    [s \in DOMAIN sort_indices |-> flatten_ids[sort_indices[s]]]

\* the (tiles_per_gauss, isect_ids, flatten_ids) _isect_tiles returns, and
\* the history fields: tag carried along with each record, writes by slot
IsectTiles(in, sort, tiesReversed) ==
    LET tpg == TilesPerGauss(in)
        n_isects == SumTo(tpg, in.C * in.N)
        empty == [ids  |-> [s \in 0..(n_isects - 1) |-> Uninit],
                  flat |-> [s \in 0..(n_isects - 1) |-> Uninit],
                  tag  |-> [s \in 0..(n_isects - 1) |-> Uninit],
                  writes |-> [s \in 0..(n_isects - 1) |-> 0]]
        buf == KernelLoop(in, 0, empty)
        perm == SortIndices(buf.ids, tiesReversed)
    IN  IF sort
        THEN [tiles_per_gauss |-> tpg,
              isect_ids   |-> [s \in DOMAIN buf.ids |-> buf.ids[perm[s]]],
              flatten_ids |-> FlattenIdsSorted(buf.flat, perm),
              tag         |-> [s \in DOMAIN buf.ids |-> buf.tag[perm[s]]],
              writes      |-> buf.writes]
        ELSE [tiles_per_gauss |-> tpg,
              isect_ids   |-> buf.ids,
              flatten_ids |-> buf.flat,
              tag         |-> buf.tag,
              writes      |-> buf.writes]

\* --------------------------------------------------- _isect_offset_encode
\* torch.unique_consecutive(v, return_counts=True): the runs of v as
\* <<value, count>>, in order
RECURSIVE RunsFrom(_, _)
RunsFrom(v, i) ==
    IF i >= Size(v) THEN <<>>
    ELSE LET stop == CHOOSE j \in (i + 1)..Size(v) :
                        /\ \A k \in i..(j - 1) : v[k] = v[i]
                        /\ (j < Size(v) => v[j] # v[i])
         IN  <<<<v[i], stop - i>>>> \o RunsFrom(v, stop)

UniqueConsecutive(v) == RunsFrom(v, 0)

\* x >> n and x & (2^n - 1) on a Python integer (floor and non-negative rest)
ShiftRight(x, n) == x \div (2 ^ n)

LowBitsNoMask(x, n) == x

LowBits(x, n) == x % (2 ^ n)

DecodeCellTransposed(uq, tile_n_bits, tile_width) ==
    LET tile == LowBits(uq, tile_n_bits)
    IN  [cam |-> ShiftRight(uq, tile_n_bits),
         y   |-> tile % tile_width,
         x   |-> tile \div tile_width]

\* The cell a run of upper words is written to: [cam, y, x]
DecodeCell(uq, tile_n_bits, tile_width) ==
    LET tile == LowBits(uq, tile_n_bits)
    IN  [cam |-> ShiftRight(uq, tile_n_bits),
         y   |-> tile \div tile_width,
         x   |-> tile % tile_width]

\* tile_counts[cam_ids_uq, tile_ids_y_uq, tile_ids_x_uq] = counts: a negative
\* index counts from the end of its axis, an index outside raises IndexError.
WrapIndex(i, n) == IF i < 0 THEN i + n ELSE i

IndexOk(i, n) == i >= -n /\ i < n

IsectOffsetEncodeInclusive(isect_ids, C, tile_width, tile_height) ==
    LET runs == UniqueConsecutive([s \in DOMAIN isect_ids |-> isect_ids[s][1]])
        tile_n_bits == TileNBits(tile_width, tile_height)
        Cell(r) == DecodeCell(runs[r][1], tile_n_bits, tile_width)
        Flat(r) == (WrapIndex(Cell(r).cam, C) * tile_height
                      + WrapIndex(Cell(r).y, tile_height)) * tile_width
                   + WrapIndex(Cell(r).x, tile_width)
        cells == 0..(C * tile_height * tile_width - 1)
        tile_counts == [c \in cells |->
            IF \E r \in DOMAIN runs : Flat(r) = c
            THEN runs[CHOOSE r \in DOMAIN runs :
                         /\ Flat(r) = c
                         /\ \A q \in DOMAIN runs : Flat(q) = c => q <= r][2]
            ELSE 0]
    IN  [status |-> "ok", offsets |-> CumSum(tile_counts)]

IsectOffsetEncode(isect_ids, C, tile_width, tile_height) ==
    LET runs == UniqueConsecutive([s \in DOMAIN isect_ids |-> isect_ids[s][1]])
        tile_n_bits == TileNBits(tile_width, tile_height)
        Cell(r) == DecodeCell(runs[r][1], tile_n_bits, tile_width)
        Flat(r) == (WrapIndex(Cell(r).cam, C) * tile_height
                      + WrapIndex(Cell(r).y, tile_height)) * tile_width
                   + WrapIndex(Cell(r).x, tile_width)
        cells == 0..(C * tile_height * tile_width - 1)
        \* several runs written to one cell: the last one stays
        tile_counts == [c \in cells |->
            IF \E r \in DOMAIN runs : Flat(r) = c
            THEN runs[CHOOSE r \in DOMAIN runs :
                         /\ Flat(r) = c
                         /\ \A q \in DOMAIN runs : Flat(q) = c => q <= r][2]
            ELSE 0]
        cum == CumSum(tile_counts)
    IN  IF \E r \in DOMAIN runs :
              ~ (/\ IndexOk(Cell(r).cam, C)
                 /\ IndexOk(Cell(r).y, tile_height)
                 /\ IndexOk(Cell(r).x, tile_width))
        THEN [status |-> "IndexError", offsets |-> <<>>]
        ELSE [status |-> "ok",
              offsets |-> [c \in cells |-> cum[c] - tile_counts[c]]]



\* ----------------------------------------------- sort_ids_and_get_offsets
\* a small non-negative int64 as a key
Int64(v) == <<0, 0, v>>

\* torch.unique(v, return_counts=True): the distinct values in ascending
\* order, each with the number of its occurrences, as <<value, count>>
RECURSIVE UniqueFrom(_, _)
UniqueFrom(v, left) ==
    IF left = {} THEN <<>>
    ELSE LET least == CHOOSE x \in left : \A y \in left : x <= y
         IN  <<<<least, Cardinality({i \in DOMAIN v : v[i] = least})>>>>
                 \o UniqueFrom(v, left \ {least})

Unique(v) == UniqueFrom(v, {v[i] : i \in DOMAIN v})

\* offsets = cat(([0], cumsum(counts)))
OffsetsOfCountsNoZero(counts) == CumSum(counts)

OffsetsOfCounts(counts) ==
    LET cum == CumSum(counts)
    IN  [i \in 0..Size(counts) |-> IF i = 0 THEN 0 ELSE cum[i - 1]]

\* original_ids: [dim, data]; data of a 1-dimensional tensor is a function
\* over 0..n-1.  A ValueError leaves the caller without any result.
SortIdsAndGetOffsets(original_ids, tiesReversed) ==
    IF original_ids.dim # 1 THEN [status |-> "ValueError"]
    ELSE LET v == original_ids.data
             perm == SortIndices([i \in DOMAIN v |-> Int64(v[i])], tiesReversed)
             sorted_ids == [i \in DOMAIN v |-> v[perm[i]]]
             uq == Unique(sorted_ids)
             counts == [i \in 0..(Len(uq) - 1) |-> uq[i + 1][2]]
         IN  [status         |-> "ok",
              sorted_ids     |-> sorted_ids,
              sorted_indices |-> perm,
              offsets        |-> OffsetsOfCounts(counts),
              unique_ids     |-> [i \in 0..(Len(uq) - 1) |-> uq[i + 1][1]],
              counts         |-> counts]

\* ---------------------------------------------------------------- accumulate
\* Opacities, alphas, weights, colors and transmittances are kept in
\* thousandths; conics are integer matrices; covars3d is in tenths.
\* sc: [C, N, image_width, image_height, tile_size, tile_width,
\*      tile_height, means2d, conics,
\*      covars3d, opacities, colors, depths_persp, radii, depths,
\*      backgrounds, batch_per_iter], per-Gaussian fields indexed by
\*      camera * N + gaussian.

\* torch.exp(-n/8) in ten-thousandths
RECURSIVE ExpNeg(_)
ExpNeg(n) == IF n <= 0 THEN 10000 ELSE (ExpNeg(n - 1) * 8825) \div 10000

\* a sequence as a tensor indexed from 0
ZeroBased(s) == [i \in 0..(Len(s) - 1) |-> s[i + 1]]

\* torch.nonzero(mask).squeeze(-1), and t[mask]: ascending positions
RECURSIVE NonzeroFrom(_, _)
NonzeroFrom(mask, i) ==
    IF i >= Size(mask) THEN <<>>
    ELSE (IF mask[i] THEN <<i>> ELSE <<>>) \o NonzeroFrom(mask, i + 1)

Nonzero(mask) == ZeroBased(NonzeroFrom(mask, 0))

\* pixel_coords = stack([pixel_ids % image_width, pixel_ids // image_width]) + 0.5
\* one row per triple, in halves
PixelCoords(sc, tr) ==
    [k \in DOMAIN tr |-> <<2 * (tr[k].px % sc.image_width) + 1,
                           2 * (tr[k].px \div sc.image_width) + 1>>]

PixelCoordsRowOwn(k, gs) == k

\* the row of pixel_coords a positive triple of Gaussian gs is given:
\* pixel_coords[fgi_pos, :] takes row number gs
PixelCoordsRow(k, gs) == gs

\* opacities[0, gaussian_ids]
Opac0(sc, gs) == sc.opacities[gs]

\* 8 * sigma for 0.5 * (c00 dx^2 + c11 dy^2) + c01 dx dy, d in halves
Sigma8(c, d) ==
    c[1][1] * d[1] * d[1] + c[2][2] * d[2] * d[2] + 2 * c[1][2] * d[1] * d[2]

\* 8 * 0.5 * einsum('bi,bij,bj->b', d, c, d), d in halves
SigmaNeg8(c, d) ==
    LET Row(i) == c[i][1] * d[1] + c[i][2] * d[2] + c[i][3] * d[3]
    IN  d[1] * Row(1) + d[2] * Row(2) + d[3] * Row(3)

\* The Accumulate-Positive phase: one alpha per triple of a Gaussian with
\* positive opacity.  pos holds the position in tr of each of them.
AccumulatePositive(sc, tr) ==
    LET M == Size(tr)
        pos == Nonzero([k \in DOMAIN tr |-> Opac0(sc, tr[k].gs) > 0])
        fgi_pos == [j \in DOMAIN pos |-> tr[pos[j]].gs]
        fci_pos == [j \in DOMAIN pos |-> tr[pos[j]].cam]
        pixel_coords == PixelCoords(sc, tr)
        Row(j) == PixelCoordsRow(pos[j], fgi_pos[j])
        At(j) == fci_pos[j] * sc.N + fgi_pos[j]
        Delta(j) == <<pixel_coords[Row(j)][1] - sc.means2d[At(j)][1],
                      pixel_coords[Row(j)][2] - sc.means2d[At(j)][2]>>
    IN  IF \E j \in DOMAIN pos : Row(j) >= M
        THEN [status |-> "IndexError", pos |-> pos, alphas |-> <<>>]
        ELSE [status |-> "ok", pos |-> pos,
              alphas |-> [j \in DOMAIN pos |->
                  Min2((sc.opacities[At(j)]
                          * ExpNeg(Sigma8(sc.conics[At(j)], Delta(j)))) \div 10000,
                       999)]]

\* the element of alphas the p-th positive triple of a tile is matched
\* with: alphas[fgi_tile_pos] takes element number gs
AlphaRow(gs) == gs

\* x.clip(min=0)
ClipMinNone(x) == x

ClipMin(x) == Max2(x, 0)

\* One iteration of "for i in range(0, len(offsets) - 1)": the triples of
\* one tile, at the positions tile_indices of tr.  lastWins: which of
\* several values written to one element of alphas by one indexed
\* assignment stays.
NegativeCorrectionTile(sc, tr, tile_indices, alphas, lastWins) ==
    LET M == Size(tr)
        pos_tile_indices ==
            Nonzero([t \in DOMAIN tile_indices |->
                         Opac0(sc, tr[tile_indices[t]].gs) > 0])
        neg_tile_indices ==
            Nonzero([t \in DOMAIN tile_indices |->
                         Opac0(sc, tr[tile_indices[t]].gs) < 0])
        P == DOMAIN pos_tile_indices
        Ne == DOMAIN neg_tile_indices
        fgi_tile_pos == [p \in P |-> tr[tile_indices[pos_tile_indices[p]]].gs]
        fci_tile_pos == [p \in P |-> tr[tile_indices[pos_tile_indices[p]]].cam]
        fgi_tile_neg == [n \in Ne |-> tr[tile_indices[neg_tile_indices[n]]].gs]
        fci_tile_neg == [n \in Ne |-> tr[tile_indices[neg_tile_indices[n]]].cam]
        PosAt(p) == fci_tile_pos[p] * sc.N + fgi_tile_pos[p]
        NegAt(n) == fci_tile_neg[n] * sc.N + fgi_tile_neg[n]
        \* delta_sparce: |deltas_z| <= sqrt(covars3d[.., 2, 2])
        DeltaZ(p, n) == sc.depths_persp[PosAt(p)] - sc.depths_persp[NegAt(n)]
        Gate(p, n) == 5 * DeltaZ(p, n) * DeltaZ(p, n) <= 2 * sc.covars3d[NegAt(n)][3][3]
        pixel_coords == PixelCoords(sc, tr)
        Row(p) == PixelCoordsRow(tile_indices[pos_tile_indices[p]], fgi_tile_pos[p])
        Delta(p, n) == <<pixel_coords[Row(p)][1] - sc.means2d[NegAt(n)][1],
                         pixel_coords[Row(p)][2] - sc.means2d[NegAt(n)][2],
                         DeltaZ(p, n)>>
        NegAlphaVal(p, n) ==
            (sc.opacities[NegAt(n)]
               * ExpNeg(SigmaNeg8(sc.conics[NegAt(n)], Delta(p, n)))) \div 10000
        \* neg_alphas.scatter_add_(0, p_idx_sp, neg_alphas_vals_sp)
        neg_alphas == [p \in P |->
            SumTo([n \in Ne |-> IF Gate(p, n) THEN NegAlphaVal(p, n) ELSE 0],
                  Size(neg_tile_indices))]
        Writers(v) == {p \in P : AlphaRow(fgi_tile_pos[p]) = v}
        Writer(v) == CHOOSE p \in Writers(v) :
                         \A q \in Writers(v) : IF lastWins THEN q <= p ELSE p <= q
    IN  IF Ne = {} THEN [status |-> "ok", alphas |-> alphas]
        ELSE IF \/ \E p \in P : \E n \in Ne : Gate(p, n) /\ Row(p) >= M
                \/ \E p \in P : AlphaRow(fgi_tile_pos[p]) >= Size(alphas)
        THEN [status |-> "IndexError", alphas |-> alphas]
        ELSE [status |-> "ok",
              alphas |-> [v \in DOMAIN alphas |->
                  IF Writers(v) = {} THEN alphas[v]
                  ELSE ClipMin(alphas[v] + neg_alphas[Writer(v)])]]

RECURSIVE NegativeCorrectionFrom(_, _, _, _, _, _)
NegativeCorrectionFrom(sc, tr, groups, i, acc0, lastWins) ==
    IF i >= Size(groups.offsets) - 1 \/ acc0.status # "ok" THEN acc0
    ELSE LET tile_indices ==
                 [t \in 0..(groups.offsets[i + 1] - groups.offsets[i] - 1) |->
                      groups.sorted_indices[groups.offsets[i] + t]]
         IN  NegativeCorrectionFrom(
                 sc, tr, groups, i + 1,
                 NegativeCorrectionTile(sc, tr, tile_indices, acc0.alphas, lastWins),
                 lastWins)

\* The Negative-Correction phase, entered when a triple's Gaussian has
\* negative opacity
NegativeCorrection(sc, tr, alphas, tiesReversed, lastWins) ==
    LET tile_id_per_elem == [k \in DOMAIN tr |->
            tr[k].cam * (sc.tile_height * sc.tile_width)
              + ((tr[k].px \div sc.image_width) \div sc.tile_size) * sc.tile_width
              + ((tr[k].px % sc.image_width) \div sc.tile_size)]
        groups == SortIdsAndGetOffsets([dim |-> 1, data |-> tile_id_per_elem],
                                       tiesReversed)
    IN  IF \A k \in DOMAIN tr : ~ (Opac0(sc, tr[k].gs) < 0)
        THEN [status |-> "ok", alphas |-> alphas]
        ELSE NegativeCorrectionFrom(sc, tr, groups, 0,
                                    [status |-> "ok", alphas |-> alphas], lastWins)

\* nerfacc.render_weight_from_alpha: along each ray, in the order of the
\* triples, weight = alpha * transmittance before it, and the transmittance
\* is multiplied by (1 - alpha).  The triples of a ray are consecutive.
RECURSIVE TransBefore(_, _, _)
TransBefore(alphas, indices, k) ==
    IF k = 0 \/ indices[k - 1] # indices[k] THEN 1000
    ELSE (TransBefore(alphas, indices, k - 1) * (1000 - alphas[k - 1])) \div 1000

RenderWeightFromAlpha(alphas, indices) ==
    [k \in DOMAIN alphas |->
        (alphas[k] * TransBefore(alphas, indices, k)) \div 1000]

\* nerfacc.accumulate_along_rays: the sum over the triples of each ray of
\* weight * value
AccumulateAlongRays(weights, values, indices, n_rays) ==
    [r \in 0..(n_rays - 1) |->
        SumTo([k \in DOMAIN weights |->
                  IF indices[k] = r THEN (weights[k] * values[k]) \div 1000 ELSE 0],
              Size(weights))]

RayIndexNoWidth(sc, camera_id, pixel_id) == camera_id * sc.image_height + pixel_id

\* indices = camera_ids * image_height * image_width + pixel_ids
RayIndex(sc, camera_id, pixel_id) ==
    camera_id * sc.image_height * sc.image_width + pixel_id

\* accumulate(...) for the triples tr = [gs, px, cam] of one batch.
\* handed: render_weight_from_alpha was called, with the alphas recorded.
\* nerfacc asserts that there is one weight for every row of values.
Accumulate(sc, tr, tiesReversed, lastWins) ==
    LET M == Size(tr)
        positive == AccumulatePositive(sc, tr)
        corrected == NegativeCorrection(sc, tr, positive.alphas, tiesReversed, lastWins)
        alphas == corrected.alphas
        indices == [k \in DOMAIN tr |-> RayIndex(sc, tr[k].cam, tr[k].px)]
        total_pixels == sc.C * sc.image_height * sc.image_width
        weights == RenderWeightFromAlpha(alphas, indices)
        failed == [status |-> "ok", handed |-> FALSE, triples |-> tr, pos |-> positive.pos,
                   alphas_pos |-> positive.alphas, alphas |-> <<>>,
                   renders |-> <<>>, accs |-> <<>>]
    IN  IF positive.status # "ok"
        THEN [failed EXCEPT !.status = positive.status]
        ELSE IF corrected.status # "ok"
        THEN [failed EXCEPT !.status = corrected.status]
        ELSE IF Size(alphas) # M
        THEN [failed EXCEPT !.status = "AssertionError",
                            !.handed = TRUE, !.alphas = alphas]
        ELSE [status |-> "ok", handed |-> TRUE, triples |-> tr,
              pos |-> positive.pos,
              alphas_pos |-> positive.alphas, alphas |-> alphas,
              renders |-> AccumulateAlongRays(
                  weights,
                  [k \in DOMAIN tr |-> sc.colors[tr[k].cam * sc.N + tr[k].gs]],
                  indices, total_pixels),
              accs |-> AccumulateAlongRays(
                  weights, [k \in DOMAIN tr |-> 1000], indices, total_pixels)]

\* ------------------------------------------------------ _rasterize_to_pixels
\* isect_offsets_fl = cat([isect_offsets.flatten(), [n_isects]])
IsectOffsetsFl(isect_offsets, flatten_ids) ==
    [c \in 0..Size(isect_offsets) |->
        IF c < Size(isect_offsets) THEN isect_offsets[c] ELSE Size(flatten_ids)]

RECURSIVE MaxDiffTo(_, _)
MaxDiffTo(fl, n) ==
    IF n = 1 THEN fl[1] - fl[0]
    ELSE Max2(fl[n] - fl[n - 1], MaxDiffTo(fl, n - 1))

NumBatchesFloor(sc, isect_offsets, flatten_ids) ==
    MaxDiffTo(IsectOffsetsFl(isect_offsets, flatten_ids), Size(isect_offsets))
        \div (sc.tile_size * sc.tile_size)

\* num_batches = (max_range + block_size - 1) // block_size
NumBatches(sc, isect_offsets, flatten_ids) ==
    LET block_size == sc.tile_size * sc.tile_size
        max_range == MaxDiffTo(IsectOffsetsFl(isect_offsets, flatten_ids),
                               Size(isect_offsets))
    IN  (max_range + block_size - 1) \div block_size

\* a transmittance that has collapsed to (near) zero: at most 0.001
Collapsed(t) == t <= 1

\* rasterize_to_indices_in_range: for every pixel whose transmittance has
\* not collapsed, in the order of camera and pixel, the Gaussians of the
\* batches range_start..range_end-1 of the pixel's tile, in stream order.
RECURSIVE TriplesFrom(_, _, _, _, _, _, _)
TriplesFrom(sc, isect_offsets, flatten_ids, range_start, range_end, transmittances, ray) ==
    IF ray >= sc.C * sc.image_height * sc.image_width THEN <<>>
    ELSE LET block_size == sc.tile_size * sc.tile_size
             cam == ray \div (sc.image_height * sc.image_width)
             px == ray % (sc.image_height * sc.image_width)
             cell == cam * (sc.tile_height * sc.tile_width)
                       + ((px \div sc.image_width) \div sc.tile_size) * sc.tile_width
                       + ((px % sc.image_width) \div sc.tile_size)
             fl == IsectOffsetsFl(isect_offsets, flatten_ids)
             lo == fl[cell] + range_start * block_size
             hi == Min2(fl[cell] + range_end * block_size, fl[cell + 1])
             own == IF ~ Collapsed(transmittances[ray]) /\ lo < hi
                    THEN [k \in 1..(hi - lo) |->
                             [gs  |-> flatten_ids[lo + k - 1] % sc.N,
                              px  |-> px,
                              cam |-> flatten_ids[lo + k - 1] \div sc.N]]
                    ELSE <<>>
         IN  own \o TriplesFrom(sc, isect_offsets, flatten_ids, range_start,
                                range_end, transmittances, ray + 1)

RasterizeToIndicesInRange(sc, isect_offsets, flatten_ids, range_start, range_end, transmittances) ==
    ZeroBased(TriplesFrom(sc, isect_offsets, flatten_ids, range_start,
                          range_end, transmittances, 0))

\* the state of the batch loop: [status, step, render_colors, render_alphas]
\* with status "loop" while "for step in range(0, num_batches, batch_per_iter)"
\* has a next step, "exit" after the loop, or the error raised
LoopEntry(sc, isect_offsets, flatten_ids) ==
    [status |-> IF NumBatches(sc, isect_offsets, flatten_ids) > 0
                THEN "loop" ELSE "exit",
     step |-> 0,
     render_colors |-> [r \in 0..(sc.C * sc.image_height * sc.image_width - 1) |-> 0],
     render_alphas |-> [r \in 0..(sc.C * sc.image_height * sc.image_width - 1) |-> 0]]

TriplesOfStep(sc, isect_offsets, flatten_ids, batch_per_iter, st) ==
    RasterizeToIndicesInRange(sc, isect_offsets, flatten_ids, st.step,
                              st.step + batch_per_iter,
                              [r \in DOMAIN st.render_alphas |->
                                   1000 - st.render_alphas[r]])

\* accumulate is not called for a step without triples
NotCalled(tr) == [status |-> "not called", handed |-> FALSE, triples |-> tr]

AccumulateOfStep(sc, tr, tiesReversed, lastWins) ==
    IF Size(tr) = 0 THEN NotCalled(tr) ELSE Accumulate(sc, tr, tiesReversed, lastWins)

LoopStepNoTransmittance(sc, isect_offsets, flatten_ids, batch_per_iter, st, a) ==
    LET next == st.step + batch_per_iter
    IN  IF Size(a.triples) = 0 THEN [st EXCEPT !.status = "exit"]
        ELSE IF a.status # "ok" THEN [st EXCEPT !.status = a.status]
        ELSE [status |-> IF next < NumBatches(sc, isect_offsets, flatten_ids)
                         THEN "loop" ELSE "exit",
              step |-> next,
              render_colors |-> [r \in DOMAIN st.render_colors |->
                  st.render_colors[r] + a.renders[r]],
              render_alphas |-> [r \in DOMAIN st.render_alphas |->
                  st.render_alphas[r] + a.accs[r]]]

\* one iteration of the loop; a is what AccumulateOfStep gave for its triples
LoopStep(sc, isect_offsets, flatten_ids, batch_per_iter, st, a) ==
    LET transmittances == [r \in DOMAIN st.render_alphas |->
                               1000 - st.render_alphas[r]]
        next == st.step + batch_per_iter
    IN  IF Size(a.triples) = 0 THEN [st EXCEPT !.status = "exit"]
        ELSE IF a.status # "ok" THEN [st EXCEPT !.status = a.status]
        ELSE [status |-> IF next < NumBatches(sc, isect_offsets, flatten_ids)
                         THEN "loop" ELSE "exit",
              step |-> next,
              render_colors |-> [r \in DOMAIN st.render_colors |->
                  st.render_colors[r] + (a.renders[r] * transmittances[r]) \div 1000],
              render_alphas |-> [r \in DOMAIN st.render_alphas |->
                  st.render_alphas[r] + (a.accs[r] * transmittances[r]) \div 1000]]

LoopExitNoBackground(sc, st) ==
    [status |-> "returned", step |-> st.step,
     render_colors |-> st.render_colors, render_alphas |-> st.render_alphas]

\* after the loop: render_colors + backgrounds * (1 - render_alphas)
LoopExit(sc, st) ==
    [status |-> "returned",
     step |-> st.step,
     render_colors |-> [r \in DOMAIN st.render_colors |->
         IF sc.backgrounds.given
         THEN st.render_colors[r]
                + (sc.backgrounds.color[r \div (sc.image_height * sc.image_width)]
                     * (1000 - st.render_alphas[r])) \div 1000
         ELSE st.render_colors[r]],
     render_alphas |-> st.render_alphas]

\* _rasterize_to_pixels(..., batch_per_iter) as a whole
RECURSIVE RasterizeFrom(_, _, _, _, _, _, _)
RasterizeFrom(sc, isect_offsets, flatten_ids, batch_per_iter, st, tiesReversed, lastWins) ==
    IF st.status = "exit" THEN LoopExit(sc, st)
    ELSE IF st.status # "loop" THEN st
    ELSE RasterizeFrom(
             sc, isect_offsets, flatten_ids, batch_per_iter,
             LoopStep(sc, isect_offsets, flatten_ids, batch_per_iter, st,
                      AccumulateOfStep(sc,
                                       TriplesOfStep(sc, isect_offsets, flatten_ids,
                                                     batch_per_iter, st),
                                       tiesReversed, lastWins)),
             tiesReversed, lastWins)

RasterizeToPixels(sc, isect_offsets, flatten_ids, batch_per_iter, tiesReversed, lastWins) ==
    RasterizeFrom(sc, isect_offsets, flatten_ids, batch_per_iter,
                  LoopEntry(sc, isect_offsets, flatten_ids), tiesReversed, lastWins)

\* ------------------------------------------------- _fully_fused_projection
\* compute_determinant_3d, on a matrix in tenths: the result is in thousandths
ComputeDeterminant3d(M) ==
    LET a == M[1][1]
        b == M[1][2]
        c == M[1][3]
        d == M[2][1]
        e == M[2][2]
        f == M[2][3]
        g == M[3][1]
        h == M[3][2]
        i == M[3][3]
    IN  a * (e * i - f * h) - b * (d * i - f * g) + c * (d * h - e * g)

\* the adjugate compute_inverse_3d divides by det, in hundredths
Adjugate3d(M) ==
    LET a == M[1][1]
        b == M[1][2]
        c == M[1][3]
        d == M[2][2]
        e == M[2][3]
        f == M[3][3]
    IN  <<<<d * f - e * e, -(b * f - c * e), b * e - c * d>>,
          <<-(b * f - c * e), a * f - c * c, -(a * e - b * c)>>,
          <<b * e - c * d, -(a * e - b * c), a * d - b * b>>>>

\* covars3d[..., :2, :2] += eye(2) * eps2d, with eps2d = 0.3 (3 tenths)
AddEps2d(M) ==
    <<<<M[1][1] + 3, M[1][2], M[1][3]>>,
      <<M[2][1], M[2][2] + 3, M[2][3]>>,
      M[3]>>

\* det.clamp(min=1e-10) of a determinant in thousandths: the number
\* num / 10^exp.  A determinant in thousandths is below 1e-10 exactly when it
\* is not positive.
ClampDet(det) ==
    IF det >= 1 THEN [num |-> det, exp |-> 3] ELSE [num |-> 1, exp |-> 10]

\* radius = ceil(3 * sqrt(v1)), v1 = b + sqrt(clamp(b^2 - det_2d, min=0.01)),
\* b = (c00 + c11) / 2, on the regularized matrix in tenths: with
\* B2 = 20 b and D400 = 400 * clamp(...), r >= 3 sqrt(v1) exactly when
\* 20 r^2 - 9 B2 >= 9 sqrt(D400).
RECURSIVE LeastRadiusFrom(_, _, _)
LeastRadiusFrom(r, B2, D400) ==
    LET lhs == 20 * r * r - 9 * B2
    IN  IF lhs >= 0 /\ lhs * lhs >= 81 * D400 THEN r
        ELSE LeastRadiusFrom(r + 1, B2, D400)

Radius(M) ==
    LET det_2d == M[1][1] * M[2][2] - M[1][2] * M[2][1]
        B2 == M[1][1] + M[2][2]
        D400 == Max2(B2 * B2 - 4 * det_2d, 4)
    IN  LeastRadiusFrom(0, B2, D400)

\* valid = (det > 0) & (depths > near_plane) & (depths < far_plane)
ValidNoFarPlane(det, depth, near_plane, far_plane) ==
    det.num > 0 /\ depth > near_plane

Valid(det, depth, near_plane, far_plane) ==
    det.num > 0 /\ depth > near_plane /\ depth < far_plane

\* inside: mean +- radius against the image, mean in half pixels
Inside(m, radius, width, height) ==
    /\ m[1] + 2 * radius > 0
    /\ m[1] - 2 * radius < 2 * width
    /\ m[2] + 2 * radius > 0
    /\ m[2] - 2 * radius < 2 * height

KnownCameraModels == {"pinhole", "ortho", "fisheye"}

\* The branch on camera_model.  Only the pinhole branch assigns covars3d and
\* depths_persp; after the other two branches the read of covars3d finds the
\* local unassigned.  Any other value reaches assert_never, which raises.
CameraBranchFallback(camera_model) ==
    CASE camera_model = "ortho"   -> "UnboundLocalError"
      [] camera_model = "fisheye" -> "UnboundLocalError"
      [] OTHER                    -> "ok"

CameraBranch(camera_model) ==
    CASE camera_model = "ortho"   -> "UnboundLocalError"
      [] camera_model = "fisheye" -> "UnboundLocalError"
      [] camera_model = "pinhole" -> "ok"
      [] OTHER                    -> "AssertionError"

\* c: [C, N, width, height, near_plane, far_plane, camera_model,
\*     depths, persp], where depths is means_c[..., 2] of _world_to_cam and
\* persp[i] = [means2d, covars3d, l] is what _persp_proj returns for entry i.
\* An error leaves the caller without any output.
FullyFusedProjection(c) ==
    LET status == CameraBranch(c.camera_model)
        idx == 0..(c.C * c.N - 1)
        covars3d == [i \in idx |-> AddEps2d(c.persp[i].covars3d)]
        det == [i \in idx |-> ClampDet(ComputeDeterminant3d(covars3d[i]))]
        r1 == [i \in idx |->
                 IF Valid(det[i], c.depths[i], c.near_plane, c.far_plane)
                 THEN Radius(covars3d[i]) ELSE 0]
        r2 == [i \in idx |->
                 IF Inside(c.persp[i].means2d, r1[i], c.width, c.height)
                 THEN r1[i] ELSE 0]
    IN  IF status # "ok" THEN [status |-> status]
        ELSE [status       |-> "ok",
              radii        |-> r2,
              means2d      |-> [i \in idx |-> c.persp[i].means2d],
              depths       |-> c.depths,
              depths_persp |-> [i \in idx |-> c.persp[i].l],
              conics       |-> [i \in idx |->
                                  [adj |-> Adjugate3d(covars3d[i]), det |-> det[i]]],
              covars3d     |-> covars3d]

\* The arguments _isect_tiles gets after a projection: its radii, means2d
\* and depths, tiles of size 2 covering the image.
BinInputOfProjection(c, p) ==
    [C |-> c.C, N |-> c.N,
     tile_size |-> 2,
     tile_width |-> CeilDiv(c.width, 2),
     tile_height |-> CeilDiv(c.height, 2),
     means2d |-> p.means2d,
     radii   |-> p.radii,
     depths  |-> p.depths]

\* ------------------------------------------------------------------ inputs
\* screen means and depths in halves
BinMeans == {<<2, 2>>, <<4, 2>>, <<6, 6>>}

BinDepths == {2, 4}

\* one Gaussian of a direct call of _isect_tiles: any mean and depth with
\* radius 1, one behind the camera (depth -2.0) and one with radius 0
BinGauss ==
    [m : BinMeans, r : {1}, d : BinDepths]
        \cup {[m |-> <<4, 2>>, r |-> 1, d |-> -4], [m |-> <<2, 2>>, r |-> 0, d |-> 2]}

BinShapes == {s \in (1..MaxC) \X (1..MaxGauss) : s[1] * s[2] <= MaxGauss}

\* the arguments of a direct call of _isect_tiles on a 4 x 4 image with
\* 2 x 2 tiles of size 2
BinInput(C, N, g) ==
    [C |-> C, N |-> N,
     tile_size |-> 2, tile_width |-> 2, tile_height |-> 2,
     means2d |-> [i \in 0..(C * N - 1) |-> g[i].m],
     radii   |-> [i \in 0..(C * N - 1) |-> g[i].r],
     depths  |-> [i \in 0..(C * N - 1) |-> g[i].d]]

\* Projection inputs.  Covariances as _persp_proj returns them, in tenths:
\* a round one (radius 4), one that is flat along the viewing ray (singular
\* also after the regularization) and a wide one (radius 10).
CovRound == <<<<10, 0, 0>>, <<0, 10, 0>>, <<0, 0, 10>>>>

CovFlat == <<<<10, 0, 0>>, <<0, 10, 0>>, <<0, 0, 0>>>>

CovWide == <<<<90, 0, 0>>, <<0, 90, 0>>, <<0, 0, 10>>>>

\* near_plane = 1.0 and far_plane = 4.0 (in halves: 2 and 8), a 4 x 4 image
ProjGauss ==
    {[z |-> z, m |-> <<4, 4>>, cov |-> CovRound] : z \in {1, 2, 4, 8, 12}}
  \cup {[z |-> 4, m |-> m, cov |-> CovRound] : m \in {<<-8, 4>>, <<4, 16>>, <<8, 8>>}}
  \cup {[z |-> 4, m |-> <<4, 4>>, cov |-> cov] : cov \in {CovFlat, CovWide}}
  \cup {[z |-> 4, m |-> <<-20, 4>>, cov |-> CovWide],
        [z |-> 1, m |-> <<4, 4>>, cov |-> CovFlat],
        [z |-> 4, m |-> <<-8, 4>>, cov |-> CovFlat]}

ProjShapes == {s \in (1..MaxC) \X (1..MaxProjGauss) : s[1] * s[2] <= MaxProjGauss}

ProjCall(C, N, camera_model, g) ==
    [C |-> C, N |-> N, width |-> 4, height |-> 4,
     near_plane |-> 2, far_plane |-> 8,
     camera_model |-> camera_model,
     depths |-> [i \in 0..(C * N - 1) |-> g[i].z],
     persp  |-> [i \in 0..(C * N - 1) |->
                   [means2d |-> g[i].m, covars3d |-> g[i].cov, l |-> g[i].z]]]

\* Rasterization inputs: a 2 x 1 image.  A Gaussian of opacity 1.0 at the
\* centre of pixel 0 or 1, at depth 1.0 or 2.0, with radius 1 (it reaches
\* both pixels); one of opacity -0.8 at the centre of pixel 0, at depth 1.0,
\* 2.0 or 4.0; one left of the image that reaches pixel 0 only; one of
\* opacity 0; one of radius 0.
RasterGauss ==
    [m : {<<1, 1>>, <<3, 1>>}, d : {2, 4}, o : {1000}, r : {1}]
  \cup [m : {<<1, 1>>}, d : {2, 4, 8}, o : {-800}, r : {1}]
  \cup {[m |-> <<-1, 1>>, d |-> 2, o |-> 1000, r |-> 1],
        [m |-> <<1, 1>>, d |-> 2, o |-> 0, r |-> 1],
        [m |-> <<1, 1>>, d |-> 2, o |-> 1000, r |-> 0]}

RasterShapes ==
    {s \in (1..MaxC) \X (1..MaxRasterGauss) : s[1] * s[2] <= MaxRasterGauss}

Identity3 == <<<<1, 0, 0>>, <<0, 1, 0>>, <<0, 0, 1>>>>

\* Every camera sees Gaussian i % N as g[i % N]: the sign of an opacity is
\* the same in all cameras.  Colors 1.0 and 0.5, background 0.2 if given.
RasterScene(C, N, tile_size, batch_per_iter, background, g) ==
    [C |-> C, N |-> N, image_width |-> 2, image_height |-> 1,
     tile_size |-> tile_size,
     tile_width |-> CeilDiv(2, tile_size), tile_height |-> CeilDiv(1, tile_size),
     means2d      |-> [i \in 0..(C * N - 1) |-> g[i % N].m],
     conics       |-> [i \in 0..(C * N - 1) |-> Identity3],
     covars3d     |-> [i \in 0..(C * N - 1) |-> CovRound],
     opacities    |-> [i \in 0..(C * N - 1) |-> g[i % N].o],
     colors       |-> [i \in 0..(C * N - 1) |-> IF (i % N) % 2 = 0 THEN 1000 ELSE 500],
     depths_persp |-> [i \in 0..(C * N - 1) |-> g[i % N].d],
     radii        |-> [i \in 0..(C * N - 1) |-> g[i % N].r],
     depths       |-> [i \in 0..(C * N - 1) |-> g[i % N].d],
     backgrounds  |-> [given |-> background, color |-> [c \in 0..(C - 1) |-> 200]],
     batch_per_iter |-> batch_per_iter]

\* the arguments of _isect_tiles for a scene
BinInputOfScene(sc) ==
    [C |-> sc.C, N |-> sc.N,
     tile_size |-> sc.tile_size,
     tile_width |-> sc.tile_width, tile_height |-> sc.tile_height,
     means2d |-> sc.means2d, radii |-> sc.radii, depths |-> sc.depths]

\* Inputs of a direct call of accumulate: Gaussians of opacity 1.0 at the
\* centre of pixel 0 or 1, and negative ones at the centre of pixel 0: of
\* opacity -1.0 at the same depth, of opacity -0.8 one step behind or too
\* far behind to pass the gate.
AccGauss ==
    {[m |-> <<1, 1>>, d |-> 2, o |-> 1000, r |-> 1],
     [m |-> <<3, 1>>, d |-> 2, o |-> 1000, r |-> 1],
     [m |-> <<1, 1>>, d |-> 2, o |-> -1000, r |-> 1],
     [m |-> <<1, 1>>, d |-> 4, o |-> -800, r |-> 1],
     [m |-> <<1, 1>>, d |-> 8, o |-> -800, r |-> 1]}

AccShapes == {s \in (1..MaxC) \X (1..MaxAccGauss) : s[1] * s[2] <= MaxAccGauss}

\* gaussian_ids, pixel_ids, camera_ids of n intersections, in the order of
\* their rays as nerfacc needs them
AccTriples(sc, n) ==
    {tr \in [0..(n - 1) -> [gs : 0..(sc.N - 1), px : 0..1, cam : 0..(sc.C - 1)]] :
        \A k \in 1..(n - 1) :
            tr[k - 1].cam * 2 + tr[k - 1].px <= tr[k].cam * 2 + tr[k].px}

\* the value of a variable no call has set yet
None == [status |-> "none"]

\* ----------------------------------------------------------------- actions
InitBin ==
    /\ pc = "isect_tiles"
    /\ \E s \in BinShapes :
          \E g \in [0..(s[1] * s[2] - 1) -> BinGauss] :
              inp = BinInput(s[1], s[2], g)
    /\ call = None
    /\ proj = None
    /\ isect = None
    /\ enc = None
    /\ sortArg = None
    /\ sortRes = None
    /\ keyArg = None
    /\ keyRes = None
    /\ scene = None
    /\ render = None
    /\ accArg = None
    /\ acc = None

InitProj ==
    /\ pc = "fully_fused_projection"
    /\ \E s \in ProjShapes :
          \E g \in [0..(s[1] * s[2] - 1) -> ProjGauss] :
              \E camera_model \in KnownCameraModels \cup {"equirect"} :
                  call = ProjCall(s[1], s[2], camera_model, g)
    /\ proj = None
    /\ inp = None
    /\ isect = None
    /\ enc = None
    /\ sortArg = None
    /\ sortRes = None
    /\ keyArg = None
    /\ keyRes = None
    /\ scene = None
    /\ render = None
    /\ accArg = None
    /\ acc = None

CallFullyFusedProjection ==
    /\ pc = "fully_fused_projection"
    /\ proj' = FullyFusedProjection(call)
    /\ IF proj'.status = "ok"
       THEN /\ pc' = "isect_tiles"
            /\ inp' = BinInputOfProjection(call, proj')
       ELSE /\ pc' = "raised"
            /\ inp' = inp
    /\ UNCHANGED <<keyVars, call, isect, enc, sortVars, rasterVars>>

CallIsectTiles ==
    /\ pc = "isect_tiles"
    /\ \E tiesReversed \in BOOLEAN :
          isect' = IsectTiles(inp, TRUE, tiesReversed)
    /\ pc' = "isect_offset_encode"
    /\ UNCHANGED <<keyVars, projVars, inp, enc, sortVars, rasterVars>>

CallIsectOffsetEncode ==
    /\ pc = "isect_offset_encode"
    /\ enc' = IsectOffsetEncode(isect.isect_ids, inp.C, inp.tile_width, inp.tile_height)
    /\ pc' = "encoded"
    /\ UNCHANGED <<keyVars, projVars, inp, isect, sortVars, rasterVars>>

NextBin == CallIsectTiles \/ CallIsectOffsetEncode

SpecBin == InitBin /\ [][NextBin]_vars

NextProj == CallFullyFusedProjection \/ CallIsectTiles \/ CallIsectOffsetEncode

SpecProj == InitProj /\ [][NextProj]_vars

\* A direct call of sort_ids_and_get_offsets: a 1-dimensional tensor of up
\* to MaxIds ids, a 0-dimensional one, or a 2-dimensional one of one row.
InitSort ==
    /\ pc = "sort_ids_and_get_offsets"
    /\ \E n \in 0..MaxIds :
          \E v \in [0..(n - 1) -> 0..MaxId] :
              \/ sortArg = [dim |-> 1, data |-> v]
              \/ n = 1 /\ sortArg = [dim |-> 0, data |-> v[0]]
              \/ n >= 1 /\ sortArg = [dim |-> 2, data |-> <<v>>]
    /\ sortRes = None
    /\ keyArg = None
    /\ keyRes = None
    /\ call = None
    /\ proj = None
    /\ inp = None
    /\ isect = None
    /\ enc = None
    /\ scene = None
    /\ render = None
    /\ accArg = None
    /\ acc = None

CallSortIdsAndGetOffsets ==
    /\ pc = "sort_ids_and_get_offsets"
    /\ \E tiesReversed \in BOOLEAN :
          sortRes' = SortIdsAndGetOffsets(sortArg, tiesReversed)
    /\ pc' = IF sortRes'.status = "ok" THEN "returned" ELSE "raised"
    /\ UNCHANGED <<keyVars, projVars, binVars, sortArg, rasterVars>>

NextSort == CallSortIdsAndGetOffsets

SpecSort == InitSort /\ [][NextSort]_vars

\* Rendering a scene: binning, offsets, then _rasterize_to_pixels, one
\* action for the entry into the batch loop, one for each iteration and
\* one for what follows the loop.
InitRaster ==
    /\ pc = "isect_tiles"
    /\ \E s \in RasterShapes :
          \E g \in [0..(s[2] - 1) -> RasterGauss] :
              \E tile_size \in {1, 2} :
                  \E batch_per_iter \in 1..MaxBatchPerIter :
                      \E background \in BOOLEAN :
                          scene = RasterScene(s[1], s[2], tile_size,
                                              batch_per_iter, background, g)
    /\ inp = BinInputOfScene(scene)
    /\ call = None
    /\ proj = None
    /\ isect = None
    /\ enc = None
    /\ sortArg = None
    /\ sortRes = None
    /\ keyArg = None
    /\ keyRes = None
    /\ render = None
    /\ accArg = None
    /\ acc = None

PcOfLoop(st) ==
    CASE st.status = "loop" -> "batch_loop"
      [] st.status = "exit" -> "loop_exit"
      [] st.status = "returned" -> "returned"
      [] OTHER -> "raised"

EnterRasterizeToPixels ==
    /\ pc = "encoded"
    /\ scene # None
    /\ enc.status = "ok"
    /\ render' = LoopEntry(scene, enc.offsets, isect.flatten_ids)
    /\ pc' = PcOfLoop(render')
    /\ UNCHANGED <<keyVars, projVars, binVars, sortVars, scene, accArg, acc>>

RasterizeBatch ==
    /\ pc = "batch_loop"
    /\ \E tiesReversed, lastWins \in BOOLEAN :
          acc' = AccumulateOfStep(
                     scene,
                     TriplesOfStep(scene, enc.offsets, isect.flatten_ids,
                                   scene.batch_per_iter, render),
                     tiesReversed, lastWins)
    /\ render' = LoopStep(scene, enc.offsets, isect.flatten_ids,
                          scene.batch_per_iter, render, acc')
    /\ pc' = PcOfLoop(render')
    /\ UNCHANGED <<keyVars, projVars, binVars, sortVars, scene, accArg>>

RasterizeReturn ==
    /\ pc = "loop_exit"
    /\ render' = LoopExit(scene, render)
    /\ pc' = PcOfLoop(render')
    /\ UNCHANGED <<keyVars, projVars, binVars, sortVars, scene, accArg, acc>>

NextRaster ==
    \/ CallIsectTiles
    \/ CallIsectOffsetEncode
    \/ EnterRasterizeToPixels
    \/ RasterizeBatch
    \/ RasterizeReturn

SpecRaster == InitRaster /\ [][NextRaster]_vars

\* A direct call of accumulate with up to MaxTriples intersections
InitAcc ==
    /\ pc = "accumulate"
    /\ \E s \in AccShapes :
          \E g \in [0..(s[2] - 1) -> AccGauss] :
              \E tile_size \in {1, 2} :
                  scene = RasterScene(s[1], s[2], tile_size, 1, FALSE, g)
    /\ \E n \in 0..MaxTriples : accArg \in AccTriples(scene, n)
    /\ acc = None
    /\ render = None
    /\ call = None
    /\ proj = None
    /\ inp = None
    /\ isect = None
    /\ enc = None
    /\ sortArg = None
    /\ sortRes = None
    /\ keyArg = None
    /\ keyRes = None

CallAccumulate ==
    /\ pc = "accumulate"
    /\ \E tiesReversed, lastWins \in BOOLEAN :
          acc' = Accumulate(scene, accArg, tiesReversed, lastWins)
    /\ pc' = IF acc'.status = "ok" THEN "returned" ELSE "raised"
    /\ UNCHANGED <<keyVars, projVars, binVars, sortVars, scene, render, accArg>>

NextAcc == CallAccumulate

SpecAcc == InitAcc /\ [][NextAcc]_vars

\* A direct call of accumulate for one camera and two Gaussians, with up to
\* MaxCorrTriples intersections: enough for two tiles that each hold a
\* positive and a negative triple
InitCorr ==
    /\ pc = "accumulate"
    /\ \E g \in [0..1 -> AccGauss] :
          \E tile_size \in {1, 2} :
              scene = RasterScene(1, 2, tile_size, 1, FALSE, g)
    /\ \E n \in 0..MaxCorrTriples : accArg \in AccTriples(scene, n)
    /\ acc = None
    /\ render = None
    /\ call = None
    /\ proj = None
    /\ inp = None
    /\ isect = None
    /\ enc = None
    /\ sortArg = None
    /\ sortRes = None
    /\ keyArg = None
    /\ keyRes = None

SpecCorr == InitCorr /\ [][NextAcc]_vars

\* The key of _isect_tiles' kernel for two records: any two cameras, tiles
\* of a 2 x 2 or a 3 x 1 grid and depths 0.0, 0.5, ... up to MaxKeyDepth / 2
InitKey ==
    /\ pc = "kernel"
    /\ \E grid \in {<<2, 2>>, <<3, 1>>} :
          \E r \in [1..2 -> [cam   : 0..(MaxC - 1),
                             tile  : 0..(grid[1] * grid[2] - 1),
                             depth : 0..MaxKeyDepth]] :
              keyArg = [tile_width |-> grid[1], tile_height |-> grid[2], recs |-> r]
    /\ keyRes = None
    /\ call = None
    /\ proj = None
    /\ inp = None
    /\ isect = None
    /\ enc = None
    /\ sortArg = None
    /\ sortRes = None
    /\ scene = None
    /\ render = None
    /\ accArg = None
    /\ acc = None

BuildKeys ==
    /\ pc = "kernel"
    /\ keyRes' = [i \in 1..2 |->
                      IsectKey(keyArg.recs[i].cam, keyArg.recs[i].tile,
                               TileNBits(keyArg.tile_width, keyArg.tile_height),
                               DepthId(keyArg.recs[i].depth))]
    /\ pc' = "keys"
    /\ UNCHANGED <<projVars, binVars, sortVars, rasterVars, keyArg>>

NextKey == BuildKeys

SpecKey == InitKey /\ [][NextKey]_vars

\* ------------------------------------------------------------------ claims
Binned == pc \in {"isect_offset_encode", "encoded"}

Records == DOMAIN isect.isect_ids

RecCam(s) == isect.tag[s][1]

RecTile(s) == isect.tag[s][2]

RecDepth(s) == inp.depths[isect.tag[s][3]]

\* the flattened [camera, tile_row, tile_col] cell of a record
RecCell(s) == RecCam(s) * (inp.tile_height * inp.tile_width) + RecTile(s)

NonNegativeDepths == \A i \in DOMAIN inp.depths : inp.depths[i] >= 0

\* C1: with non-negative depths the stream _isect_tiles returns with
\* sort=True is grouped by (camera, tile): the groups come in ascending
\* (camera, tile) order, so the records of one group are contiguous, and
\* inside a group the depths do not decrease.
C1_GroupedByTileDepthAscending ==
    (Binned /\ NonNegativeDepths) =>
        \A s, t \in Records :
            s < t =>
                /\ \/ RecCam(s) < RecCam(t)
                   \/ RecCam(s) = RecCam(t) /\ RecTile(s) <= RecTile(t)
                /\ (RecCam(s) = RecCam(t) /\ RecTile(s) = RecTile(t))
                       => RecDepth(s) <= RecDepth(t)

\* C1 witness: a sorted stream in which one (camera, tile) group holds two
\* Gaussians at different depths, the farther one with the smaller index,
\* and a second camera contributes a later group.
C1_Witness ==
    /\ Binned /\ NonNegativeDepths
    /\ \E s, t \in Records :
          /\ s < t /\ RecCell(s) = RecCell(t)
          /\ RecDepth(s) < RecDepth(t)
          /\ isect.flatten_ids[s] > isect.flatten_ids[t]
    /\ \E s, t \in Records : RecCam(s) < RecCam(t)

Encoded == pc = "encoded"

Cells == 0..(inp.C * inp.tile_height * inp.tile_width - 1)

\* isect_offsets_fl of _rasterize_to_pixels: the flattened offsets followed
\* by n_isects
OffsetsFl ==
    [c \in 0..(inp.C * inp.tile_height * inp.tile_width) |->
        IF c \in Cells THEN enc.offsets[c] ELSE Size(isect.flatten_ids)]

RangeOf(c) == {s \in Records : OffsetsFl[c] <= s /\ s < OffsetsFl[c + 1]}

RangeLen(c) == OffsetsFl[c + 1] - OffsetsFl[c]

RECURSIVE SumRangeLen(_)
SumRangeLen(c) == IF c = 0 THEN 0 ELSE RangeLen(c - 1) + SumRangeLen(c - 1)

\* C2: the ranges read off the offsets table partition a sorted stream: the
\* lengths sum to the record count, no range has a negative length (no
\* overlap), the first starts at 0 (no gap), and the range of a cell holds
\* exactly the records of that camera and tile.
C2_RangesPartitionStream ==
    (Encoded /\ NonNegativeDepths) =>
        /\ enc.status = "ok"
        /\ OffsetsFl[0] = 0
        /\ \A c \in Cells : RangeLen(c) >= 0
        /\ SumRangeLen(inp.C * inp.tile_height * inp.tile_width)
              = Size(isect.flatten_ids)
        /\ \A c \in Cells : RangeOf(c) = {s \in Records : RecCell(s) = c}

\* C2 witness: an encoded stream with records of two cameras and a cell
\* holding more than one record.
C2_Witness ==
    /\ Encoded /\ NonNegativeDepths /\ enc.status = "ok"
    /\ \E s, t \in Records : RecCam(s) # RecCam(t)
    /\ \E c \in Cells : RangeLen(c) >= 2

\* C3: the offsets never decrease in flattened (camera, row, col) order, and
\* a cell without records has a zero-length range starting at the number
\* of records of all earlier cells.
C3_OffsetsMonotoneEmptyCells ==
    (Encoded /\ NonNegativeDepths) =>
        /\ enc.status = "ok"
        /\ \A c, d \in Cells : c <= d => enc.offsets[c] <= enc.offsets[d]
        /\ \A c \in Cells :
              (\A s \in Records : RecCell(s) # c) =>
                  /\ RangeLen(c) = 0
                  /\ enc.offsets[c]
                        = Cardinality({s \in Records : RecCell(s) < c})

\* C3 witness: an empty cell lying between two cells that hold records.
C3_Witness ==
    /\ Encoded /\ NonNegativeDepths /\ enc.status = "ok"
    /\ \E c \in Cells :
          /\ \A s \in Records : RecCell(s) # c
          /\ \E s, t \in Records : RecCell(s) < c /\ c < RecCell(t)

Returned == proj # None /\ proj.status = "ok"

Gaussians == 0..(call.C * call.N - 1)

Clipped(i) == ~ (call.depths[i] > call.near_plane /\ call.depths[i] < call.far_plane)

\* C5: a (camera, Gaussian) whose depth is not strictly between near_plane
\* and far_plane gets radius 0 from _fully_fused_projection, and _isect_tiles
\* then gives it tiles_per_gauss = 0 and no record.
C5_ClippedGaussianHasNoTiles ==
    Returned =>
        \A i \in Gaussians :
            Clipped(i) =>
                /\ proj.radii[i] = 0
                /\ isect # None =>
                      /\ isect.tiles_per_gauss[i] = 0
                      /\ \A s \in Records : isect.flatten_ids[s] # i

\* C5 witness: binning has run on a projection with a Gaussian at the far
\* plane, in the image and not degenerate, next to one that left records.
C5_Witness ==
    /\ Returned /\ isect # None
    /\ \E i \in Gaussians :
          /\ call.depths[i] = call.far_plane
          /\ call.persp[i].means2d = <<4, 4>>
          /\ call.persp[i].covars3d = CovRound
    /\ Records # {}

\* the determinant after the regularization, before the clamp
RegularizedDet(i) == ComputeDeterminant3d(AddEps2d(call.persp[i].covars3d))

OutsideImage(i) ==
    ~ Inside(call.persp[i].means2d, Radius(AddEps2d(call.persp[i].covars3d)),
             call.width, call.height)

Invalid(i) == RegularizedDet(i) <= 0 \/ Clipped(i) \/ OutsideImage(i)

\* C6: the radius is 0 exactly for an invalid Gaussian (regularized
\* determinant not positive, depth outside the clip, or mean +- radius off
\* the image), and a valid one has radius at least 1.
C6_RadiusZeroIffInvalid ==
    Returned =>
        \A i \in Gaussians :
            /\ (proj.radii[i] = 0) <=> Invalid(i)
            /\ ~ Invalid(i) => proj.radii[i] >= 1

\* C7: for pinhole, ortho and fisheye the projection returns, with screen
\* mean, depth, conic and radius for every (camera, Gaussian), and a
\* degenerate Gaussian has radius 0.
C7_KnownModelsReturnFullOutput ==
    (proj # None /\ call.camera_model \in KnownCameraModels) =>
        /\ proj.status = "ok"
        /\ \A f \in {"means2d", "depths", "conics", "radii"} :
              /\ f \in DOMAIN proj
              /\ DOMAIN proj[f] = Gaussians
        /\ \A i \in Gaussians : RegularizedDet(i) <= 0 => proj.radii[i] = 0

\* C8: with a camera_model outside {pinhole, ortho, fisheye} the projection
\* raises: the caller gets no output and nothing is binned.
C8_UnknownModelRaises ==
    (proj # None /\ call.camera_model \notin KnownCameraModels) =>
        /\ proj.status = "AssertionError"
        /\ DOMAIN proj = {"status"}
        /\ pc = "raised"
        /\ inp = None /\ isect = None /\ enc = None

\* C8 witness: the call with the unknown model has been made.
C8_Witness ==
    /\ proj # None
    /\ call.camera_model \notin KnownCameraModels
    /\ pc = "raised"

\* C9: sort_ids_and_get_offsets raises ValueError and returns nothing for an
\* argument that is not 1-dimensional; for a 1-dimensional one the offsets
\* start at 0, end at the number of ids, and the i-th slice of
\* sorted_indices holds exactly the positions of unique_ids[i].
C9_SortIdsOffsets ==
    sortRes # None =>
        IF sortArg.dim # 1
        THEN sortRes = [status |-> "ValueError"] /\ pc = "raised"
        ELSE /\ sortRes.status = "ok"
             /\ sortRes.offsets[0] = 0
             /\ sortRes.offsets[Size(sortRes.offsets) - 1] = Size(sortArg.data)
             /\ \A i \in DOMAIN sortRes.unique_ids :
                   {sortRes.sorted_indices[k] :
                        k \in sortRes.offsets[i]..(sortRes.offsets[i + 1] - 1)}
                     = {j \in DOMAIN sortArg.data :
                            sortArg.data[j] = sortRes.unique_ids[i]}

\* C9 witness: the call returned for unsorted ids with a repeated id, and
\* with ties in the order opposite to the input's.
C9_Witness ==
    /\ sortRes # None /\ sortRes.status = "ok"
    /\ \E j, k \in DOMAIN sortArg.data :
          j < k /\ sortArg.data[j] > sortArg.data[k]
    /\ \E a, b \in DOMAIN sortRes.sorted_indices :
          /\ a < b
          /\ sortRes.sorted_ids[a] = sortRes.sorted_ids[b]
          /\ sortRes.sorted_indices[a] > sortRes.sorted_indices[b]

\* C10: every alpha that accumulate hands to ray accumulation lies in
\* [0, 0.999], whatever the negative correction subtracted.
C10_HandedAlphasInRange ==
    (acc # None /\ acc.handed) =>
        \A j \in DOMAIN acc.alphas : acc.alphas[j] >= 0 /\ acc.alphas[j] <= 999

\* C10 witness: alphas were handed over after the positive phase capped
\* them and the negative correction took one of them down to 0, while
\* another one stayed at the cap.
C10_Witness ==
    /\ acc # None /\ acc.handed
    /\ \E k \in DOMAIN acc.triples : Opac0(scene, acc.triples[k].gs) < 0
    /\ \E j \in DOMAIN acc.alphas : acc.alphas_pos[j] = 999 /\ acc.alphas[j] = 0
    /\ \E j \in DOMAIN acc.alphas : acc.alphas[j] = 999

\* two results of _rasterize_to_pixels agree: both raise, or both return
\* colors and alphas that differ by at most 0.005
SameOutput(a, b) ==
    /\ (a.status = "returned") = (b.status = "returned")
    /\ a.status = "returned" =>
          \A r \in DOMAIN a.render_colors :
              /\ a.render_colors[r] - b.render_colors[r] \in -5..5
              /\ a.render_alphas[r] - b.render_alphas[r] \in -5..5

\* C4: for a fixed scene, the color and alpha _rasterize_to_pixels returns
\* are the same for every positive batch_per_iter.
C4_BatchPerIterInvariant ==
    pc \in {"returned", "raised"} =>
        \A b \in 1..MaxBatchPerIter :
            \E tiesReversed, lastWins \in BOOLEAN :
                SameOutput(render,
                           RasterizeToPixels(scene, enc.offsets, isect.flatten_ids,
                                             b, tiesReversed, lastWins))

\* C11: in the batch loop every pixel's transmittance is 1.0 before the
\* first batch and never increases from one step to the next, and every
\* pixel's accumulated alpha stays within [0, 1].
C11_TransmittanceMonotone ==
    [][render' # None =>
          /\ \A r \in DOMAIN render'.render_alphas :
                /\ render'.render_alphas[r] >= 0
                /\ render'.render_alphas[r] <= 1000
          /\ render = None =>
                \A r \in DOMAIN render'.render_alphas :
                    1000 - render'.render_alphas[r] = 1000
          /\ render # None =>
                \A r \in DOMAIN render.render_alphas :
                    1000 - render'.render_alphas[r] <= 1000 - render.render_alphas[r]]_vars

\* C11 witness: two batches were accumulated and a pixel's transmittance
\* went below 1.0 without collapsing.
C11_Witness ==
    /\ render # None
    /\ scene.batch_per_iter = 1
    /\ render.step = 2
    /\ \E r \in DOMAIN render.render_alphas :
          render.render_alphas[r] > 0 /\ render.render_alphas[r] < 999

\* the triples of the batch ranges the loop has not issued, for the pixels
\* whose transmittance has not collapsed
TriplesNotIssued ==
    RasterizeToIndicesInRange(
        scene, enc.offsets, isect.flatten_ids,
        render.step, render.step + Size(isect.flatten_ids) + 1,
        [r \in DOMAIN render.render_alphas |-> 1000 - render.render_alphas[r]])

\* C12: whenever the batch loop has exited, no batch range that was not
\* issued holds a triple that would still contribute to a pixel.
C12_LoopExitLeavesNoTriple ==
    pc \in {"loop_exit", "returned"} => Size(TriplesNotIssued) = 0

\* C12 witness: the loop exited before the last batch range because every
\* pixel's transmittance had collapsed, with Gaussians left in the stream.
C12_Witness ==
    /\ pc = "loop_exit"
    /\ render.step > 0
    /\ render.step < NumBatches(scene, enc.offsets, isect.flatten_ids)
    /\ \A r \in DOMAIN render.render_alphas :
          Collapsed(1000 - render.render_alphas[r])

\* a scene without a valid Gaussian: every radius is 0
NoValidGaussian == \A i \in DOMAIN scene.radii : scene.radii[i] = 0

\* C13: without a valid Gaussian nothing raises: _isect_tiles returns an
\* empty stream, _isect_offset_encode an all-zero offsets table, and
\* _rasterize_to_pixels zero alpha and zero color, or the background color
\* when one is configured.
C13_EmptyResultsAreNotErrors ==
    NoValidGaussian =>
        /\ pc # "raised"
        /\ isect # None =>
              Size(isect.isect_ids) = 0 /\ Size(isect.flatten_ids) = 0
        /\ enc # None =>
              /\ enc.status = "ok"
              /\ DOMAIN enc.offsets =
                     0..(scene.C * scene.tile_height * scene.tile_width - 1)
              /\ \A c \in DOMAIN enc.offsets : enc.offsets[c] = 0
        /\ pc = "returned" =>
              \A r \in DOMAIN render.render_alphas :
                  /\ render.render_alphas[r] = 0
                  /\ render.render_colors[r] =
                         IF scene.backgrounds.given
                         THEN scene.backgrounds.color[
                                  r \div (scene.image_height * scene.image_width)]
                         ELSE 0

\* C13 witness: _rasterize_to_pixels returned for a scene of Gaussians
\* that all have radius 0, with a background configured.
C13_Witness ==
    /\ NoValidGaussian
    /\ pc = "returned"
    /\ scene.backgrounds.given
    /\ scene.N > 1

\* the records _isect_tiles emitted for the flattened (camera, Gaussian) i
RecordsOf(i) == {s \in Records : isect.flatten_ids[s] = i}

\* the tiles of the box of i: tile (x, y) lies in it when
\* floor((mean - radius) / tile_size) <= x < ceil((mean + radius) / tile_size)
\* within the grid, and likewise y; none when the radius is 0
BoxTiles(i) ==
    LET m == inp.means2d[i]
        r == inp.radii[i]
        ts == inp.tile_size
        In(v, k) == 2 * ts * (k + 1) > v - 2 * r /\ 2 * ts * k < v + 2 * r
    IN  IF r = 0 THEN {}
        ELSE {y * inp.tile_width + x :
                  x \in {k \in 0..(inp.tile_width - 1) : In(m[1], k)},
                  y \in {k \in 0..(inp.tile_height - 1) : In(m[2], k)}}

\* C14: _isect_tiles emits for every (camera, Gaussian) exactly
\* tiles_per_gauss records, the area of its clamped tile box and 0 for
\* radius 0; they all carry the same depth key and, for a depth that is
\* not negative, their keys name the camera and each tile of the box once.
C14_RecordsCoverTileBox ==
    Binned =>
        \A i \in 0..(inp.C * inp.N - 1) :
            /\ isect.tiles_per_gauss[i] = Cardinality(BoxTiles(i))
            /\ Cardinality(RecordsOf(i)) = isect.tiles_per_gauss[i]
            /\ \A s, t \in RecordsOf(i) :
                  /\ isect.isect_ids[s][2] = isect.isect_ids[t][2]
                  /\ isect.isect_ids[s][3] = isect.isect_ids[t][3]
            /\ inp.depths[i] >= 0 =>
                  {isect.isect_ids[s][1] : s \in RecordsOf(i)}
                    = {(i \div inp.N) * (2 ^ TileNBits(inp.tile_width, inp.tile_height)) + t :
                           t \in BoxTiles(i)}

\* C14 witness: the stream holds a Gaussian whose box has two tiles, one
\* whose box has one tile, and one of radius 0.
C14_Witness ==
    /\ Binned
    /\ \E i, j, k \in 0..(inp.C * inp.N - 1) :
          /\ Cardinality(RecordsOf(i)) = 2
          /\ Cardinality(RecordsOf(j)) = 1
          /\ inp.radii[k] = 0

\* (camera, tile, depth) of a before that of b, lexicographically
LexLess(a, b) ==
    \/ a.cam < b.cam
    \/ a.cam = b.cam /\ a.tile < b.tile
    \/ a.cam = b.cam /\ a.tile = b.tile /\ a.depth < b.depth

\* C15: for two records of non-negative depth the composite keys compare
\* as (camera id, tile id, depth) compare lexicographically.
C15_KeyOrderIsLexicographic ==
    keyRes # None =>
        (KeyLess(keyRes[1], keyRes[2]) <=> LexLess(keyArg.recs[1], keyArg.recs[2]))

\* C15 witness: keys were built for a record of the larger camera, smaller
\* tile and smaller depth against one of the smaller camera, and the former
\* key is the larger one.
C15_Witness ==
    /\ keyRes # None
    /\ keyArg.recs[1].cam > keyArg.recs[2].cam
    /\ keyArg.recs[1].tile < keyArg.recs[2].tile
    /\ keyArg.recs[1].depth < keyArg.recs[2].depth
    /\ keyArg.recs[1].depth > 0
    /\ KeyLess(keyRes[2], keyRes[1])

\* position k of the triples of a call of accumulate: its Gaussian in its
\* camera, the centre of its pixel (in halves) and its (camera, tile)
TripleAt(k) == accArg[k].cam * scene.N + accArg[k].gs

OwnPixelCentre(k) ==
    <<2 * (accArg[k].px % scene.image_width) + 1,
      2 * (accArg[k].px \div scene.image_width) + 1>>

OwnTile(k) ==
    <<accArg[k].cam,
      (accArg[k].px \div scene.image_width) \div scene.tile_size,
      (accArg[k].px % scene.image_width) \div scene.tile_size>>

\* min(opacity * exp(-sigma), 0.999) at the offset between the centre of
\* the pixel of triple k and the screen mean of its Gaussian in its camera
OwnPixelAlpha(k) ==
    LET d == <<OwnPixelCentre(k)[1] - scene.means2d[TripleAt(k)][1],
               OwnPixelCentre(k)[2] - scene.means2d[TripleAt(k)][2]>>
    IN  Min2((scene.opacities[TripleAt(k)]
                * ExpNeg(Sigma8(scene.conics[TripleAt(k)], d))) \div 10000, 999)

\* C16: once the Accumulate-Positive phase has produced its alphas, the
\* alpha of every positive-opacity triple is the one computed from that
\* triple's own pixel and its own Gaussian in its own camera.
C16_AlphaFromOwnPixel ==
    (acc # None /\ Size(acc.alphas_pos) = Size(acc.pos)) =>
        \A j \in DOMAIN acc.pos : acc.alphas_pos[j] = OwnPixelAlpha(acc.pos[j])

\* C17: the alphas handed to ray accumulation are one per triple of the
\* batch: as many as gaussian_ids / pixel_ids / camera_ids have entries.
C17_OneAlphaPerTriple ==
    (acc # None /\ acc.handed) => Size(acc.alphas) = Size(acc.triples)

\* triple n has negative opacity, shares camera and tile with triple k and
\* passes the gate |depth_persp(k) - depth_persp(n)| <= sqrt(covars3d[n][2,2])
GatedPair(k, n) ==
    LET dz == scene.depths_persp[TripleAt(k)] - scene.depths_persp[TripleAt(n)]
    IN  /\ scene.opacities[TripleAt(n)] < 0
        /\ OwnTile(k) = OwnTile(n)
        /\ 5 * dz * dz <= 2 * scene.covars3d[TripleAt(n)][3][3]

\* opacity_neg * exp(-0.5 * d^T conic d) for the pair (k, n), d from the
\* centre of the pixel of k to the mean of n
PairContribution(k, n) ==
    LET d == <<OwnPixelCentre(k)[1] - scene.means2d[TripleAt(n)][1],
               OwnPixelCentre(k)[2] - scene.means2d[TripleAt(n)][2],
               scene.depths_persp[TripleAt(k)] - scene.depths_persp[TripleAt(n)]>>
    IN  (scene.opacities[TripleAt(n)]
           * ExpNeg(SigmaNeg8(scene.conics[TripleAt(n)], d))) \div 10000

\* C18: after the Negative-Correction phase the alpha of every positive
\* triple is its positive-phase alpha plus the contributions of exactly its
\* own gated pairs, clipped at 0; with no gated pair it is unchanged.
C18_CorrectionGoesToOwnTriple ==
    (acc # None /\ acc.handed) =>
        \A j \in DOMAIN acc.pos :
            /\ j \in DOMAIN acc.alphas
            /\ acc.alphas[j] =
                   Max2(acc.alphas_pos[j]
                          + SumTo([n \in DOMAIN accArg |->
                                      IF GatedPair(acc.pos[j], n)
                                      THEN PairContribution(acc.pos[j], n) ELSE 0],
                                  Size(accArg)),
                        0)

\* the (camera, tile)s of the triples, and every order to take them in
OwnTiles == {OwnTile(k) : k \in DOMAIN accArg}

TileOrders ==
    {o \in [1..Cardinality(OwnTiles) -> OwnTiles] :
        \A a, b \in DOMAIN o : a # b => o[a] # o[b]}

\* the positions of the triples of tile T, ascending or descending
TileTriples(T, descending) ==
    LET up == Nonzero([k \in DOMAIN accArg |-> OwnTile(k) = T])
    IN  [t \in DOMAIN up |-> IF descending THEN up[Size(up) - 1 - t] ELSE up[t]]

\* the loop of the Negative-Correction phase with the tiles taken in the
\* order o
RECURSIVE CorrectInOrder(_, _, _, _)
CorrectInOrder(o, res, descending, lastWins) ==
    IF o = <<>> \/ res.status # "ok" THEN res
    ELSE CorrectInOrder(Tail(o),
                        NegativeCorrectionTile(scene, accArg,
                                               TileTriples(Head(o), descending),
                                               res.alphas, lastWins),
                        descending, lastWins)

\* C19: whatever the order of the tiles, the order of the triples within a
\* tile (hence of the contributions summed for one positive triple) and the
\* write that stays when several positive triples of a tile have the same
\* Gaussian id, the Negative-Correction phase ends the same way and with the
\* same corrected alphas as the call did.
C19_CorrectionOrderIndependent ==
    (acc # None /\ Size(acc.alphas_pos) = Size(acc.pos)) =>
        \A o \in TileOrders : \A descending, lastWins \in BOOLEAN :
            LET res == CorrectInOrder(o, [status |-> "ok", alphas |-> acc.alphas_pos],
                                      descending, lastWins)
            IN  /\ acc.handed <=> res.status = "ok"
                /\ acc.handed => acc.alphas = res.alphas

\* C19 witness: a call went through the phase with two positive triples of
\* one Gaussian id at different pixels of one tile, both gated against a
\* negative triple of that tile, and alphas were corrected.
C19_Witness ==
    /\ acc # None
    /\ acc.handed
    /\ acc.alphas # acc.alphas_pos
    /\ \E j1, j2 \in DOMAIN acc.pos : \E n \in DOMAIN accArg :
          /\ accArg[acc.pos[j1]].px # accArg[acc.pos[j2]].px
          /\ accArg[acc.pos[j1]].gs = accArg[acc.pos[j2]].gs
          /\ GatedPair(acc.pos[j1], n)
          /\ GatedPair(acc.pos[j2], n)

\* two tiles each correct with a gated pair of their own
TwoCorrectingTiles ==
    /\ acc # None
    /\ acc.handed
    /\ \E k1, k2, n1, n2 \in DOMAIN accArg :
          /\ OwnTile(k1) # OwnTile(k2)
          /\ scene.opacities[TripleAt(k1)] > 0 /\ GatedPair(k1, n1)
          /\ scene.opacities[TripleAt(k2)] > 0 /\ GatedPair(k2, n2)
          /\ acc.alphas # acc.alphas_pos
\* the positions of the triples of pixel p of camera c, in their order
RayTriples(c, p) ==
    Nonzero([k \in DOMAIN accArg |-> accArg[k].cam = c /\ accArg[k].px = p])

\* front-to-back compositing of the triples own alone: the transmittance
\* before the t-th of them, and the sum of alpha * transmittance * value
RECURSIVE RayTrans(_, _)
RayTrans(own, t) ==
    IF t = 0 THEN 1000
    ELSE (RayTrans(own, t - 1) * (1000 - acc.alphas[own[t - 1]])) \div 1000

RayColor(own) ==
    SumTo([t \in DOMAIN own |->
              (((acc.alphas[own[t]] * RayTrans(own, t)) \div 1000)
                 * scene.colors[TripleAt(own[t])]) \div 1000],
          Size(own))

RayAlpha(own) ==
    SumTo([t \in DOMAIN own |-> (acc.alphas[own[t]] * RayTrans(own, t)) \div 1000],
          Size(own))

Pixels == 0..(scene.image_height * scene.image_width - 1)

\* C20: the ray index is injective over (camera, pixel), and in the images
\* accumulate returns every pixel holds the composite of its own triples
\* alone: 0 for a pixel with no triple, nothing from another pixel's triples.
C20_PixelOwnsItsAccumulator ==
    (acc # None /\ acc.status = "ok") =>
        /\ \A c1, c2 \in 0..(scene.C - 1) : \A p1, p2 \in Pixels :
               RayIndex(scene, c1, p1) = RayIndex(scene, c2, p2) => c1 = c2 /\ p1 = p2
        /\ \A c \in 0..(scene.C - 1) : \A p \in Pixels :
               LET r == RayIndex(scene, c, p)
                   own == RayTriples(c, p)
               IN  /\ acc.renders[r] = RayColor(own)
                   /\ acc.accs[r] = RayAlpha(own)
                   /\ Size(own) = 0 => acc.renders[r] = 0 /\ acc.accs[r] = 0

\* C20 witness: accumulate returned images of two cameras where one pixel
\* has two triples, a pixel of the other camera has one, and the two other
\* pixels have none.
C20_Witness ==
    /\ acc # None
    /\ acc.status = "ok"
    /\ scene.C = 2
    /\ Size(RayTriples(0, 0)) = 2
    /\ Size(RayTriples(0, 1)) = 0
    /\ Size(RayTriples(1, 0)) = 0
    /\ Size(RayTriples(1, 1)) = 1
    /\ acc.accs[RayIndex(scene, 0, 0)] > 0
    /\ acc.accs[RayIndex(scene, 1, 1)] > 0

\* sum of the first i entries of tiles_per_gauss: cum_tiles[i - 1], 0 for i = 0
CumTiles(i) == SumTo(isect.tiles_per_gauss, i)

\* the slot the kernel wrote record s to, before the sort
RecSlot(s) == isect.tag[s][4]

\* C21: there are n_isects slots and each is written exactly once; the slots
\* written for (camera, Gaussian) index i are exactly [cum_tiles[i - 1],
\* cum_tiles[i]), each for another tile, so no write is overwritten
\* and the ranges are disjoint and cover [0, n_isects); after the sort the
\* records are those of the slots, each key next to the index
\* camera * N + Gaussian of the Gaussian that produced it.
C21_SlotsWrittenOncePairsKept ==
    Binned =>
        /\ Records = 0..(CumTiles(inp.C * inp.N) - 1)
        /\ DOMAIN isect.flatten_ids = Records
        /\ DOMAIN isect.writes = Records
        /\ \A s \in Records : isect.writes[s] = 1
        /\ {RecSlot(s) : s \in Records} = Records
        /\ \A i \in 0..(inp.C * inp.N - 1) :
              LET recs == {s \in Records : isect.tag[s][3] = i}
              IN  /\ {RecSlot(s) : s \in recs} = CumTiles(i)..(CumTiles(i + 1) - 1)
                  /\ Cardinality(recs) = isect.tiles_per_gauss[i]
                  /\ Cardinality({RecTile(s) : s \in recs}) = Cardinality(recs)
        /\ \A s \in Records :
              /\ isect.flatten_ids[s] = isect.tag[s][3]
              /\ isect.flatten_ids[s]
                   = RecCam(s) * inp.N + (isect.flatten_ids[s] % inp.N)
              /\ isect.isect_ids[s]
                   = IsectKey(RecCam(s), RecTile(s),
                              TileNBits(inp.tile_width, inp.tile_height),
                              DepthId(inp.depths[isect.flatten_ids[s]]))

\* C21 witness: three (camera, Gaussian) indices wrote slots, one of them
\* two, an index between them has radius 0 and an empty slot range, and the
\* sort moved a record of a larger index in front of one of a smaller index.
C21_Witness ==
    /\ Binned
    /\ \E i, j, k \in 0..(inp.C * inp.N - 1) :
          /\ i < k /\ k < j
          /\ CumTiles(i + 1) - CumTiles(i) = 2
          /\ inp.radii[k] = 0
          /\ CumTiles(j + 1) - CumTiles(j) >= 1
    /\ Cardinality({isect.flatten_ids[s] : s \in Records}) >= 3
    /\ \E s, t \in Records : s < t /\ isect.flatten_ids[s] > isect.flatten_ids[t]
    /\ \E s \in Records : RecSlot(s) # s

\* the cell _isect_offset_encode decodes from the key of record s:
\* key >> 32 is the upper word of the key
DecodedCell(s) ==
    DecodeCell(isect.isect_ids[s][1],
               TileNBits(inp.tile_width, inp.tile_height), inp.tile_width)

\* C22: the key of every record of non-negative depth decodes to the
\* camera c < C and the tile (x, y) of the grid it was emitted for; with
\* only such records every count is scattered into a cell of the
\* [C, tile_height, tile_width] table.
C22_KeyDecodesToItsCell ==
    /\ Binned =>
          \A s \in Records :
              RecDepth(s) >= 0 =>
                  LET cell == DecodedCell(s)
                  IN  /\ cell.cam = isect.flatten_ids[s] \div inp.N
                      /\ cell.cam = RecCam(s)
                      /\ cell.cam \in 0..(inp.C - 1)
                      /\ cell.x \in 0..(inp.tile_width - 1)
                      /\ cell.y \in 0..(inp.tile_height - 1)
                      /\ cell.y * inp.tile_width + cell.x = RecTile(s)
    /\ (Encoded /\ NonNegativeDepths) =>
          /\ enc.status = "ok"
          /\ DOMAIN enc.offsets = Cells

\* C22 witness: an encoded stream of non-negative depths with a record of
\* camera 1 in tile (x, y) = (1, 0), one in tile (1, 1) and one of camera 0.
C22_Witness ==
    /\ Encoded /\ NonNegativeDepths
    /\ enc.status = "ok"
    /\ \E s, t, u \in Records :
          /\ DecodedCell(s) = [cam |-> 1, y |-> 0, x |-> 1]
          /\ DecodedCell(t).y = 1 /\ DecodedCell(t).x = 1
          /\ DecodedCell(u).cam = 0

====
